---- MODULE Spec2Model ----
(***************************************************************************)
(* A model of app/MobotixControl.py: the pan-tilt controller MobotixPT     *)
(* (wire-command tables, the curl transport, timed moves) and the imager   *)
(* MobotixImager (supervision of the /thermal-raw capture process and the  *)
(* raw-to-jpg conversion pass over the working directory).                 *)
(*                                                                         *)
(* Text is modelled as sequences of tokens (one-character strings, the     *)
(* word "frame" and the file extensions being single tokens).  A single    *)
(* caller drives one camera: it calls move() or capture(), the call runs   *)
(* to its end, and the caller goes back to idle.                           *)
(***************************************************************************)
EXTENDS Integers, Sequences, FiniteSets, TLC

VARIABLES
    pc,        \* position of the caller: idle, inside move(), inside capture(), done
    args,      \* the running MobotixPT call: its name and its arguments
    code,      \* move(): the local variable code
    sent,      \* wire commands handed to curl during the running call, in order
    resps,     \* what the transport met on each of them (a body or the timeout)
    slept,     \* time units spent in time.sleep() during the running call
    ret,       \* how the running call ended: [kind, tag, val]
    frames,    \* MobotixImager.frames, the target frame count
    workdir,   \* does the working directory exist
    dir,       \* names of the entries of the working directory
    proc,      \* the /thermal-raw process: none, running, exited
    stdout,    \* is the supervisor's end of the process' output pipe open
    pipe,      \* lines written by the process and not yet read
    output,    \* get_camera_frames(): the line on which the while loop was left
    timeouts,  \* consecutive select() timeouts (saturating at MaxTimeouts)
    eofs,      \* consecutive empty reads (saturating at MaxEofs)
    exc,       \* capture(): the exception raised inside its try block (or none)
    entries,   \* capture(): the entries glob("*") yields, in its order
    idx,       \* capture(): number of entries the for loop has taken
    tspath,    \* capture(): the loop variable tspath (<<>> while unassigned)
    convLog    \* ffmpeg invocations of the running call: [src, dims, dst, ok]

vars == <<pc, args, code, sent, resps, slept, ret, frames, workdir, dir, proc,
          stdout, pipe, output, timeouts, eofs, exc, entries, idx, tspath,
          convLog>>

ptzVars == <<args, code, sent, resps, slept>>
capVars == <<proc, stdout, pipe, output, timeouts, eofs, exc>>
finVars == <<entries, idx, tspath, convLog>>

-----------------------------------------------------------------------------
(* Bounds of the model.                                                    *)

MaxDuration == 2     \* move(): durations 0..MaxDuration
MaxFrames   == 2     \* target frame counts 1..MaxFrames
MaxPipe     == 1     \* lines the pipe buffers
MaxTimeouts == 2     \* consecutive timeouts counted
MaxEofs     == 1     \* consecutive empty reads counted
MaxFiles    == 3     \* entries the environment puts into the working directory

-----------------------------------------------------------------------------
(* Text helpers.                                                           *)

Digits == {"0", "1", "2", "3", "4", "5", "6", "7", "8", "9"}

DigitVal(c) ==
    CASE c = "0" -> 0 [] c = "1" -> 1 [] c = "2" -> 2 [] c = "3" -> 3
      [] c = "4" -> 4 [] c = "5" -> 5 [] c = "6" -> 6 [] c = "7" -> 7
      [] c = "8" -> 8 [] c = "9" -> 9

\* characters str.strip() removes and \s matches
Whitespace == {" ", "\t", "\n", "\r"}

\* str.strip() / bytes.strip(): drop leading and trailing whitespace
RECURSIVE LStrip(_)
LStrip(s) ==
    IF s # <<>> /\ Head(s) \in Whitespace THEN LStrip(Tail(s)) ELSE s

RECURSIVE RStrip(_)
RStrip(s) ==
    IF s # <<>> /\ s[Len(s)] \in Whitespace
    THEN RStrip(SubSeq(s, 1, Len(s) - 1)) ELSE s

strip(s) == RStrip(LStrip(s))

\* last index of the maximal run of digits of s that starts at i (i - 1 if none)
RECURSIVE DigitRunEnd(_, _)
DigitRunEnd(s, i) ==
    IF i <= Len(s) /\ s[i] \in Digits THEN DigitRunEnd(s, i + 1) ELSE i - 1

\* int() of a sequence of digits
RECURSIVE int(_)
int(ds) ==
    IF ds = <<>> THEN 0
    ELSE 10 * int(SubSeq(ds, 1, Len(ds) - 1)) + DigitVal(ds[Len(ds)])

Min(a, b) == IF a < b THEN a ELSE b

\* all orders in which the elements of a finite set can be enumerated
RECURSIVE Perms(_)
Perms(S) ==
    IF S = {} THEN {<<>>}
    ELSE UNION {{<<x>> \o p : p \in Perms(S \ {x})} : x \in S}

-----------------------------------------------------------------------------
(* How a call ends.                                                        *)

NoRet == [kind |-> "none", tag |-> "", val |-> <<>>]
Return(tag, val) == [kind |-> "return", tag |-> tag, val |-> val]
Raise(tag) == [kind |-> "raise", tag |-> tag, val |-> <<>>]

-----------------------------------------------------------------------------
(* MobotixPT: the wire-command tables.                                     *)

\* one URL-encoded byte, "%hl"
P(h, l) == <<"%", h, l>>

presets ==
       1 :> P("F","F") \o P("0","1") \o P("0","0") \o P("0","7") \o P("0","0") \o P("0","1") \o P("0","9")
    @@ 2 :> P("F","F") \o P("0","1") \o P("0","0") \o P("0","7") \o P("0","0") \o P("0","2") \o P("0","A")
    @@ 3 :> P("F","F") \o P("0","1") \o P("0","0") \o P("0","7") \o P("0","0") \o P("0","3") \o P("0","B")
    @@ 4 :> P("F","F") \o P("0","1") \o P("0","0") \o P("0","7") \o P("0","0") \o P("0","4") \o P("0","C")
    @@ 5 :> P("F","F") \o P("0","1") \o P("0","0") \o P("0","7") \o P("0","0") \o P("0","5") \o P("0","D")
    @@ 6 :> P("F","F") \o P("0","1") \o P("0","0") \o P("0","7") \o P("0","0") \o P("0","6") \o P("0","E")
    @@ 7 :> P("F","F") \o P("0","1") \o P("0","0") \o P("0","7") \o P("0","0") \o P("0","7") \o P("0","F")
    @@ 8 :> P("F","F") \o P("0","1") \o P("0","0") \o P("0","7") \o P("0","0") \o P("0","8") \o P("1","0")
    @@ 9 :> P("F","F") \o P("0","1") \o P("0","0") \o P("0","7") \o P("0","0") \o P("0","9") \o P("1","1")
    @@ 10 :> P("F","F") \o P("0","1") \o P("0","0") \o P("0","7") \o P("0","0") \o P("1","0") \o P("1","8")
    @@ 11 :> P("F","F") \o P("0","1") \o P("0","0") \o P("0","7") \o P("0","0") \o P("1","1") \o P("1","9")
    @@ 12 :> P("F","F") \o P("0","1") \o P("0","0") \o P("0","7") \o P("0","0") \o P("1","2") \o P("1","A")
    @@ 13 :> P("F","F") \o P("0","1") \o P("0","0") \o P("0","7") \o P("0","0") \o P("1","3") \o P("1","B")
    @@ 14 :> P("F","F") \o P("0","1") \o P("0","0") \o P("0","7") \o P("0","0") \o P("1","4") \o P("1","C")
    @@ 15 :> P("F","F") \o P("0","1") \o P("0","0") \o P("0","7") \o P("0","0") \o P("1","5") \o P("1","D")
    @@ 16 :> P("F","F") \o P("0","1") \o P("0","0") \o P("0","7") \o P("0","0") \o P("1","6") \o P("1","E")
    @@ 17 :> P("F","F") \o P("0","1") \o P("0","0") \o P("0","7") \o P("0","0") \o P("1","7") \o P("1","F")
    @@ 18 :> P("F","F") \o P("0","1") \o P("0","0") \o P("0","7") \o P("0","0") \o P("1","8") \o P("2","0")
    @@ 19 :> P("F","F") \o P("0","1") \o P("0","0") \o P("0","7") \o P("0","0") \o P("1","9") \o P("2","1")
    @@ 20 :> P("F","F") \o P("0","1") \o P("0","0") \o P("0","7") \o P("0","0") \o P("2","0") \o P("2","8")
    @@ 21 :> P("F","F") \o P("0","1") \o P("0","0") \o P("0","7") \o P("0","0") \o P("2","1") \o P("2","9")
    @@ 22 :> P("F","F") \o P("0","1") \o P("0","0") \o P("0","7") \o P("0","0") \o P("2","2") \o P("2","A")
    @@ 23 :> P("F","F") \o P("0","1") \o P("0","0") \o P("0","7") \o P("0","0") \o P("2","3") \o P("2","B")
    @@ 24 :> P("F","F") \o P("0","1") \o P("0","0") \o P("0","7") \o P("0","0") \o P("2","4") \o P("2","C")
    @@ 25 :> P("F","F") \o P("0","1") \o P("0","0") \o P("0","7") \o P("0","0") \o P("2","5") \o P("2","D")
    @@ 26 :> P("F","F") \o P("0","1") \o P("0","0") \o P("0","7") \o P("0","0") \o P("2","6") \o P("2","E")
    @@ 27 :> P("F","F") \o P("0","1") \o P("0","0") \o P("0","7") \o P("0","0") \o P("2","7") \o P("2","F")
    @@ 28 :> P("F","F") \o P("0","1") \o P("0","0") \o P("0","7") \o P("0","0") \o P("2","8") \o P("3","0")
    @@ 29 :> P("F","F") \o P("0","1") \o P("0","0") \o P("0","7") \o P("0","0") \o P("2","9") \o P("3","1")
    @@ 30 :> P("F","F") \o P("0","1") \o P("0","0") \o P("0","7") \o P("0","0") \o P("3","0") \o P("3","8")
    @@ 31 :> P("F","F") \o P("0","1") \o P("0","0") \o P("0","7") \o P("0","0") \o P("3","1") \o P("3","9")
    @@ 32 :> P("F","F") \o P("0","1") \o P("0","0") \o P("0","7") \o P("0","0") \o P("3","2") \o P("3","A")

speed_codes ==
       "right" :> (
              1 :> P("F","F") \o P("0","1") \o P("0","0") \o P("0","2") \o P("0","1") \o P("0","0") \o P("0","4")
           @@ 2 :> P("F","F") \o P("0","1") \o P("0","0") \o P("0","2") \o P("0","F") \o P("0","0") \o P("1","2")
           @@ 3 :> P("F","F") \o P("0","1") \o P("0","0") \o P("0","2") \o P("1","F") \o P("0","0") \o P("2","2")
           @@ 4 :> P("F","F") \o P("0","1") \o P("0","0") \o P("0","2") \o P("2","F") \o P("0","0") \o P("3","2")
           @@ 5 :> P("F","F") \o P("0","1") \o P("0","0") \o P("0","2") \o P("F","F") \o P("0","0") \o P("0","2"))
    @@ "left" :> (
              1 :> P("F","F") \o P("0","1") \o P("0","0") \o P("0","4") \o P("0","1") \o P("0","0") \o P("0","6")
           @@ 2 :> P("F","F") \o P("0","1") \o P("0","0") \o P("0","4") \o P("0","F") \o P("0","0") \o P("1","4")
           @@ 3 :> P("F","F") \o P("0","1") \o P("0","0") \o P("0","4") \o P("1","F") \o P("0","0") \o P("2","4")
           @@ 4 :> P("F","F") \o P("0","1") \o P("0","0") \o P("0","4") \o P("2","F") \o P("0","0") \o P("3","4")
           @@ 5 :> P("F","F") \o P("0","1") \o P("0","0") \o P("0","4") \o P("F","F") \o P("0","0") \o P("0","4"))
    @@ "up" :> (
              1 :> P("F","F") \o P("0","1") \o P("0","0") \o P("0","8") \o P("0","0") \o P("0","1") \o P("0","A")
           @@ 2 :> P("F","F") \o P("0","1") \o P("0","0") \o P("0","8") \o P("0","0") \o P("0","F") \o P("1","8")
           @@ 3 :> P("F","F") \o P("0","1") \o P("0","0") \o P("0","8") \o P("0","0") \o P("1","F") \o P("2","8")
           @@ 4 :> P("F","F") \o P("0","1") \o P("0","0") \o P("0","8") \o P("0","0") \o P("2","F") \o P("3","8")
           @@ 5 :> P("F","F") \o P("0","1") \o P("0","0") \o P("0","8") \o P("0","0") \o P("F","F") \o P("0","8"))
    @@ "down" :> (
              1 :> P("F","F") \o P("0","1") \o P("0","0") \o P("1","0") \o P("0","0") \o P("0","1") \o P("1","2")
           @@ 2 :> P("F","F") \o P("0","1") \o P("0","0") \o P("1","0") \o P("0","0") \o P("0","F") \o P("2","0")
           @@ 3 :> P("F","F") \o P("0","1") \o P("0","0") \o P("1","0") \o P("0","0") \o P("1","F") \o P("3","0")
           @@ 4 :> P("F","F") \o P("0","1") \o P("0","0") \o P("1","0") \o P("0","0") \o P("2","F") \o P("4","0")
           @@ 5 :> P("F","F") \o P("0","1") \o P("0","0") \o P("1","0") \o P("0","0") \o P("F","F") \o P("1","0"))

\* the stop command with its last byte mistyped
stopCode_mistyped ==
    P("F","F") \o P("0","1") \o P("0","0") \o P("0","0") \o P("0","0") \o P("0","0") \o P("0","0")

stopCode ==
    P("F","F") \o P("0","1") \o P("0","0") \o P("0","0") \o P("0","0") \o P("0","0") \o P("0","1")

resetCode ==
    P("F","F") \o P("0","1") \o P("0","0") \o P("0","F") \o P("0","0") \o P("0","0") \o P("1","0")

\* the value None, and Python's truth value of a string or None
None == <<"None">>
\* a test against the empty string only, which None passes
Truthy_not_empty(v) == v # <<>>

Truthy(v) == v # None /\ v # <<>>

\* a lookup that falls back to an entry of the table
get_or_first(table, key) ==
    IF key \in DOMAIN table THEN table[key]
    ELSE table[CHOOSE k \in DOMAIN table : \A j \in DOMAIN table : k <= j]

\* dict.get(key): the entry, or None
get(table, key) == IF key \in DOMAIN table THEN table[key] ELSE None

InvalidPresetMsg == <<"Invalid preset ID.">>
InvalidCodeMsg == <<"Invalid code value for movement.">>

-----------------------------------------------------------------------------
(* MobotixPT: the transport.                                               *)

DEFAULT_MOVEMENT_TIMEOUT == 15

OK == <<"O", "K">>

\* response bodies curl may print
Bodies ==
    { OK,
      <<"O", "K", "\n">>,
      <<" ", "O", "K", " ", "\r", "\n">>,
      <<"o", "k">>,
      <<"O", " ", "K">>,
      <<"O", "K", "K">>,
      <<>>,
      <<"\n">>,
      <<"E", "R", "R", "O", "R">> }

\* what one request meets: curl ends within the time `took` with a body, or
\* is still running when the timeout of the decorator fires (body is then
\* what curl would have printed, had it been left to end)
Responses ==
    [took : {1, DEFAULT_MOVEMENT_TIMEOUT - 1}, body : Bodies]
        \cup [took : {DEFAULT_MOVEMENT_TIMEOUT}, body : {<<>>, OK}]

\* _send_command comparing the body as printed, without strip()
_send_command_unstripped(r) ==
    IF r.took >= DEFAULT_MOVEMENT_TIMEOUT THEN Raise("TimeoutError")
    ELSE IF r.body # OK THEN Raise("Exception")
    ELSE Return("stdout", r.body)

\* _send_command without the timeout decorator: curl is left to end
_send_command_undecorated(r) ==
    IF strip(r.body) # OK THEN Raise("Exception")
    ELSE Return("stdout", r.body)

\* _send_command(code), given what the request meets
_send_command(r) ==
    IF r.took >= DEFAULT_MOVEMENT_TIMEOUT THEN Raise("TimeoutError")
    ELSE IF strip(r.body) # OK THEN Raise("Exception")
    ELSE Return("stdout", r.body)

-----------------------------------------------------------------------------
(* MobotixPT: the controller.                                              *)

Directions == {"up", "down", "left", "right", "diagonal"}
Speeds == 0..6
PresetIds == 0..33
NoArgs == [op |-> "", direction |-> "", speed |-> 0, duration |-> 0, pt_id |-> 0]

\* move_to_preset(pt_id)
move_to_preset(id) ==
    /\ pc = "idle"
    /\ args' = [NoArgs EXCEPT !.op = "move_to_preset", !.pt_id = id]
    /\ code' = get(presets, id)
    /\ IF Truthy(code')
       THEN \E r \in Responses :
              /\ sent' = Append(sent, code')
              /\ resps' = Append(resps, r)
              /\ ret' = _send_command(r)
       ELSE /\ ret' = Return("str", InvalidPresetMsg)
            /\ UNCHANGED <<sent, resps>>
    /\ pc' = "done"
    /\ UNCHANGED <<slept, frames, workdir, dir, capVars, finVars>>

\* move(direction, speed, duration), up to the first request
move(d, s, t) ==
    /\ pc = "idle"
    /\ args' = [NoArgs EXCEPT !.op = "move", !.direction = d, !.speed = s,
                               !.duration = t]
    /\ IF d \notin DOMAIN speed_codes
       THEN /\ ret' = Raise("KeyError")
            /\ pc' = "done"
            /\ UNCHANGED <<code, sent, resps>>
       ELSE /\ code' = get(speed_codes[d], s)
            /\ IF Truthy(code')
               THEN \E r \in Responses :
                      /\ sent' = Append(sent, code')
                      /\ resps' = Append(resps, r)
                      /\ IF _send_command(r).kind = "raise"
                         THEN ret' = _send_command(r) /\ pc' = "done"
                         ELSE ret' = ret /\ pc' = "move_sleep"
               ELSE /\ ret' = Return("str", InvalidCodeMsg)
                    /\ pc' = "done"
                    /\ UNCHANGED <<sent, resps>>
    /\ UNCHANGED <<slept, frames, workdir, dir, capVars, finVars>>

\* a move() that goes on to stop() without sleeping
move_sleep_skipped ==
    /\ pc = "move_sleep"
    /\ pc' = "move_stop"
    /\ UNCHANGED <<args, code, sent, resps, slept, ret, frames, workdir, dir,
                   capVars, finVars>>

\* move(): time.sleep(duration)
move_sleep ==
    /\ pc = "move_sleep"
    /\ slept' = slept + args.duration
    /\ pc' = "move_stop"
    /\ UNCHANGED <<args, code, sent, resps, ret, frames, workdir, dir, capVars, finVars>>

\* move(): self.stop(), whose value move() drops
move_stop ==
    /\ pc = "move_stop"
    /\ \E r \in Responses :
         /\ sent' = Append(sent, stopCode)
         /\ resps' = Append(resps, r)
         /\ ret' = IF _send_command(r).kind = "raise"
                   THEN _send_command(r) ELSE Return("None", <<>>)
    /\ pc' = "done"
    /\ UNCHANGED <<args, code, slept, frames, workdir, dir, capVars, finVars>>

\* stop()
stop ==
    /\ pc = "idle"
    /\ \E r \in Responses :
         /\ sent' = Append(sent, stopCode)
         /\ resps' = Append(resps, r)
         /\ ret' = _send_command(r)
    /\ code' = stopCode
    /\ args' = [NoArgs EXCEPT !.op = "stop"]
    /\ pc' = "done"
    /\ UNCHANGED <<slept, frames, workdir, dir, capVars, finVars>>

\* remote_reset()
remote_reset ==
    /\ pc = "idle"
    /\ \E r \in Responses :
         /\ sent' = Append(sent, resetCode)
         /\ resps' = Append(resps, r)
         /\ ret' = _send_command(r)
    /\ code' = resetCode
    /\ args' = [NoArgs EXCEPT !.op = "remote_reset"]
    /\ pc' = "done"
    /\ UNCHANGED <<slept, frames, workdir, dir, capVars, finVars>>

-----------------------------------------------------------------------------
(* MobotixImager: paths and file names.                                    *)

\* index of the last "." of a name (0 if none): str.rfind(".")
RECURSIVE rfind_dot(_, _)
rfind_dot(name, i) ==
    IF i = 0 THEN 0
    ELSE IF name[i] = "." THEN i ELSE rfind_dot(name, i - 1)

\* Path.suffix: the last dot-separated part, dot included; a leading or a
\* trailing dot starts no suffix
suffix(name) ==
    LET i == rfind_dot(name, Len(name))
    IN  IF 1 < i /\ i < Len(name) THEN SubSeq(name, i, Len(name)) ELSE <<>>

\* Path.stem: the name without its suffix
stem(name) == SubSeq(name, 1, Len(name) - Len(suffix(name)))

\* Path.with_suffix(suf)
with_suffix(name, suf) == stem(name) \o suf

RGB == <<".", "rgb">>
JPG == <<".", "jpg">>

\* does the pattern \d+x\d+ match at position i of s
ResolutionAt(s, i) ==
    /\ s[i] \in Digits
    /\ LET e == DigitRunEnd(s, i)
       IN  e + 2 <= Len(s) /\ s[e + 1] = "x" /\ s[e + 2] \in Digits

\* re.search("\d+x\d+", s): the leftmost match, greedy on both sides, or None
search_resolution(s) ==
    LET starts == {i \in 1..Len(s) : ResolutionAt(s, i)}
    IN  IF starts = {} THEN None
        ELSE LET i == CHOOSE j \in starts : \A k \in starts : j <= k
                 e == DigitRunEnd(s, i)
             IN  SubSeq(s, i, DigitRunEnd(s, e + 2))

\* extract_resolution(path): the match's text; None stands for the
\* AttributeError that .group() raises on no match
extract_resolution(name) == search_resolution(stem(name))

\* names the environment and the capture process can put into the directory
F_a == <<"7", "_", "c", "_", "3", "2", "x", "2", "4", ".", "rgb">>
F_b == <<"8", "_", "c", "_", "3", "2", "x", "2", "4", ".", "rgb">>
F_c == <<"5", "x", "_", "1", "6", "x", "1", "2", ".", "rgb">>
F_bare == <<"9", "_", "c", ".", "rgb">>
F_txt == <<"n", ".", "txt">>
F_jpg == <<"7", "_", "c", "_", "3", "2", "x", "2", "4", ".", "jpg">>

FilePool == {F_a, F_b, F_c, F_bare, F_txt, F_jpg}

\* the raw entries of a set of names: tspath.suffix == ".rgb"
Raw(S) == {f \in S : suffix(f) = RGB}

-----------------------------------------------------------------------------
(* MobotixImager: the output of the capture process.                       *)

\* a byte that is not valid UTF-8
BadByte == "<ff>"

\* lines the capture process can print, each as readline() returns it
Lines ==
    { <<"frame", " ", "#", "1", "\n">>,
      <<"frame", " ", "#", "2", "\n">>,
      <<"frame", " ", "#", "3", "\n">>,
      <<"c", ":", " ", "frame", "\t", "#", "1", "0", " ", "\n">>,
      <<"frame", "#", "3", "\n">>,
      <<"frame", " ", "#", "0", " ", "frame", " ", "#", "9", "\n">>,
      <<"\n">>,
      <<BadByte, "\n">> }

\* bytes.decode(): the text, or a UnicodeDecodeError
Decodes(b) == \A i \in 1..Len(b) : b[i] # BadByte

\* does the pattern frame\s#(\d+) match at position i of s
FrameAt(s, i) ==
    /\ i + 3 <= Len(s)
    /\ s[i] = "frame"
    /\ s[i + 1] \in Whitespace
    /\ s[i + 2] = "#"
    /\ s[i + 3] \in Digits

\* re.search("frame\s#(\d+)", s): group 1 of the leftmost match, or None
search_frame(s) ==
    LET starts == {i \in 1..Len(s) : FrameAt(s, i)}
    IN  IF starts = {} THEN None
        ELSE LET i == CHOOSE j \in starts : \A k \in starts : j <= k
             IN  SubSeq(s, i + 3, DigitRunEnd(s, i + 3))

\* the comparison of line 235 with >= for >
MaxFrameCountReached_ge(line, target) ==
    LET m == search_frame(strip(line))
    IN  m # None /\ int(m) >= target

\* line 235: m and int(m.groups()[0]) > self.frames
MaxFrameCountReached(line, target) ==
    LET m == search_frame(strip(line))
    IN  m # None /\ int(m) > target

-----------------------------------------------------------------------------
(* MobotixImager: get_camera_frames() and the capture process.             *)

NoOutput == <<"<unread>">>

\* an except clause that logs the exception and goes on
swallow(e) == Return("None", <<>>)

\* the except clause of capture(), lines 245-247: raise Exception(e)
reraise(e) == Raise("Exception")

\* capture(), lines 243-244 up to the with-statement: mkdir, then Popen
capture(mk, launch) ==
    /\ pc = "idle"
    /\ IF ~mk
       THEN /\ exc' = "OSError"
            /\ ret' = reraise(exc')
            /\ pc' = "done"
            /\ UNCHANGED <<workdir, proc, stdout>>
       ELSE /\ workdir' = TRUE
            /\ IF ~launch
               THEN /\ exc' = "OSError"
                    /\ ret' = reraise(exc')
                    /\ pc' = "done"
                    /\ UNCHANGED <<proc, stdout>>
               ELSE /\ proc' = "running"
                    /\ stdout' = TRUE
                    /\ pc' = "cap_poll"
                    /\ UNCHANGED <<exc, ret>>
    /\ UNCHANGED <<ptzVars, frames, dir, pipe, output, timeouts, eofs, finVars>>

\* the process prints a line
proc_emit(l) ==
    /\ proc = "running" /\ stdout
    /\ Len(pipe) < MaxPipe
    /\ pipe' = Append(pipe, l)
    /\ UNCHANGED <<pc, ptzVars, ret, frames, workdir, dir, proc, stdout, output,
                   timeouts, eofs, exc, finVars>>

\* the process writes a raw frame into the working directory
proc_write(f) ==
    /\ proc = "running"
    /\ f \notin dir
    /\ Cardinality(dir) < MaxFiles
    /\ dir' = dir \cup {f}
    /\ UNCHANGED <<pc, ptzVars, ret, frames, workdir, proc, stdout, pipe, output,
                   timeouts, eofs, exc, finVars>>

\* the process ends: by itself, or on printing into the closed pipe
proc_exit ==
    /\ proc = "running"
    /\ proc' = "exited"
    /\ UNCHANGED <<pc, ptzVars, ret, frames, workdir, dir, stdout, pipe, output,
                   timeouts, eofs, exc, finVars>>

\* a timeout that is taken for a failure and leaves the loop
poll_timeout_fatal ==
    /\ pc = "cap_poll"
    /\ pipe = <<>> /\ proc = "running"
    /\ timeouts' = Min(timeouts + 1, MaxTimeouts)
    /\ eofs' = 0
    /\ stdout' = FALSE
    /\ exc' = "TimeoutError"
    /\ pc' = "cap_wait"
    /\ UNCHANGED <<ptzVars, ret, frames, workdir, dir, proc, pipe, output, finVars>>

\* lines 225-228: select() returns nothing within 5 units
poll_timeout ==
    /\ pc = "cap_poll"
    /\ pipe = <<>> /\ proc = "running"
    /\ timeouts' = Min(timeouts + 1, MaxTimeouts)
    /\ eofs' = 0
    /\ UNCHANGED <<pc, ptzVars, ret, frames, workdir, dir, proc, stdout, pipe,
                   output, exc, finVars>>

\* leaving the with-block: Popen.__exit__ closes the stream (what the pipe
\* still holds is lost), then waits for the process
leave_with(e) ==
    /\ stdout' = FALSE
    /\ pipe' = <<>>
    /\ exc' = e
    /\ pc' = "cap_wait"

\* lines 225, 229-237: select() reports the stream readable, readline()
poll_read ==
    /\ pc = "cap_poll"
    /\ pipe # <<>> \/ proc = "exited"
    /\ LET line == IF pipe # <<>> THEN Head(pipe) ELSE <<>>
       IN  IF line = <<>>
           THEN /\ eofs' = Min(eofs + 1, MaxEofs)
                /\ UNCHANGED <<pc, stdout, pipe, output, exc>>
           ELSE /\ eofs' = 0
                /\ IF ~Decodes(strip(line))
                   THEN leave_with("UnicodeDecodeError") /\ output' = line
                   ELSE IF MaxFrameCountReached(line, frames)
                        THEN leave_with("none") /\ output' = line
                        ELSE /\ pipe' = Tail(pipe)
                             /\ UNCHANGED <<pc, stdout, output, exc>>
    /\ timeouts' = 0
    /\ UNCHANGED <<ptzVars, ret, frames, workdir, dir, proc, finVars>>

-----------------------------------------------------------------------------
(* MobotixImager: capture() after get_camera_frames().                     *)


\* a wait() that returns although the process still runs
wait_returns_at_once == TRUE

\* Popen.__exit__: wait() returns once the process has exited
wait_returns == proc = "exited"

\* the with-block is left; then either the exception reaches the except
\* clause, or glob("*") lists the directory
popen_exit ==
    /\ pc = "cap_wait"
    /\ wait_returns
    /\ output' = NoOutput /\ timeouts' = 0 /\ eofs' = 0
    /\ IF exc # "none"
       THEN /\ ret' = reraise(exc)
            /\ pc' = "done"
            /\ UNCHANGED <<entries, idx, tspath>>
       ELSE /\ entries' \in Perms(dir)
            /\ idx' = 0
            /\ tspath' = <<>>
            /\ pc' = "fin_loop"
            /\ ret' = ret
    /\ UNCHANGED <<ptzVars, frames, workdir, dir, proc, stdout, pipe, exc, convLog>>

\* convert_rgb_to_jpg without the unlink of line 202
convert_keeps_raw(d, fname_rgb, ok) ==
    LET fname_jpg == with_suffix(fname_rgb, JPG)
        image_dims == extract_resolution(fname_rgb)
        run == [src |-> fname_rgb, dims |-> image_dims, dst |-> fname_jpg, ok |-> ok]
    IN  IF image_dims = None
        THEN [res |-> Raise("AttributeError"), dir |-> d, runs |-> <<>>]
        ELSE IF ~ok
        THEN [res |-> Raise("CalledProcessError"), dir |-> d, runs |-> <<run>>]
        ELSE [res |-> Return("path", fname_jpg), dir |-> d \cup {fname_jpg},
              runs |-> <<run>>]

\* convert_rgb_to_jpg without check=True: ffmpeg's exit status is not looked at
convert_unchecked(d, fname_rgb, ok) ==
    LET fname_jpg == with_suffix(fname_rgb, JPG)
        image_dims == extract_resolution(fname_rgb)
        run == [src |-> fname_rgb, dims |-> image_dims, dst |-> fname_jpg, ok |-> ok]
    IN  IF image_dims = None
        THEN [res |-> Raise("AttributeError"), dir |-> d, runs |-> <<>>]
        ELSE [res |-> Return("path", fname_jpg),
              dir |-> (IF ok THEN d \cup {fname_jpg} ELSE d) \ {fname_rgb},
              runs |-> <<run>>]

\* convert_rgb_to_jpg that runs ffmpeg with a dimension of its own when the
\* name has none
convert_default_dims(d, fname_rgb, ok) ==
    LET fname_jpg == with_suffix(fname_rgb, JPG)
        image_dims == IF extract_resolution(fname_rgb) = None
                      THEN <<"1", "x", "1">>
                      ELSE extract_resolution(fname_rgb)
        run == [src |-> fname_rgb, dims |-> image_dims, dst |-> fname_jpg, ok |-> ok]
    IN  IF ~ok
        THEN [res |-> Raise("CalledProcessError"), dir |-> d, runs |-> <<run>>]
        ELSE [res |-> Return("path", fname_jpg),
              dir |-> (d \cup {fname_jpg}) \ {fname_rgb},
              runs |-> <<run>>]

\* convert_rgb_to_jpg(fname_rgb) in directory d, given ffmpeg's exit status
\* (a failing ffmpeg is taken to leave no output file)
convert_rgb_to_jpg(d, fname_rgb, ok) ==
    LET fname_jpg == with_suffix(fname_rgb, JPG)
        image_dims == extract_resolution(fname_rgb)
        run == [src |-> fname_rgb, dims |-> image_dims, dst |-> fname_jpg, ok |-> ok]
    IN  IF image_dims = None
        THEN [res |-> Raise("AttributeError"), dir |-> d, runs |-> <<>>]
        ELSE IF ~ok
        THEN [res |-> Raise("CalledProcessError"), dir |-> d, runs |-> <<run>>]
        ELSE [res |-> Return("path", fname_jpg),
              dir |-> (d \cup {fname_jpg}) \ {fname_rgb},
              runs |-> <<run>>]

\* a for loop that catches the exception of one entry and takes the next
isolated(res) == FALSE

\* an exception of convert_rgb_to_jpg leaves the for loop and capture()
propagates(res) == res.kind = "raise"

\* lines 249-251: one turn of the for loop
fin_step ==
    /\ pc = "fin_loop"
    /\ idx < Len(entries)
    /\ LET p == entries[idx + 1]
       IN  IF suffix(p) = RGB
           THEN \E ok \in BOOLEAN :
                  LET c == convert_rgb_to_jpg(dir, p, ok)
                  IN  /\ dir' = c.dir
                      /\ convLog' = convLog \o c.runs
                      /\ idx' = idx + 1
                      /\ IF propagates(c.res)
                         THEN /\ tspath' = p
                              /\ ret' = c.res
                              /\ pc' = "done"
                         ELSE /\ tspath' = IF c.res.kind = "raise" THEN p ELSE c.res.val
                              /\ UNCHANGED <<ret, pc>>
           ELSE /\ tspath' = p
                /\ idx' = idx + 1
                /\ UNCHANGED <<dir, convLog, ret, pc>>
    /\ UNCHANGED <<ptzVars, frames, workdir, capVars, entries>>

\* line 253: return tspath
fin_return ==
    /\ pc = "fin_loop"
    /\ idx = Len(entries)
    /\ ret' = IF tspath = <<>> THEN Raise("UnboundLocalError")
              ELSE Return("path", tspath)
    /\ pc' = "done"
    /\ UNCHANGED <<ptzVars, frames, workdir, dir, capVars, finVars>>

-----------------------------------------------------------------------------
(* The caller, and the two specifications.                                 *)

\* the caller takes the result of the call; what the call kept is dropped
idle ==
    /\ pc = "done"
    /\ pc' = "idle"
    /\ args' = NoArgs /\ code' = None /\ sent' = <<>> /\ resps' = <<>> /\ slept' = 0
    /\ ret' = NoRet
    /\ proc' = "none" /\ stdout' = FALSE /\ pipe' = <<>> /\ output' = NoOutput
    /\ timeouts' = 0 /\ eofs' = 0 /\ exc' = "none"
    /\ entries' = <<>> /\ idx' = 0 /\ tspath' = <<>> /\ convLog' = <<>>
    /\ UNCHANGED <<frames, workdir, dir>>

InitCall ==
    /\ pc = "idle"
    /\ args = NoArgs /\ code = None /\ sent = <<>> /\ resps = <<>> /\ slept = 0
    /\ ret = NoRet
    /\ proc = "none" /\ stdout = FALSE /\ pipe = <<>> /\ output = NoOutput
    /\ timeouts = 0 /\ eofs = 0 /\ exc = "none"
    /\ entries = <<>> /\ idx = 0 /\ tspath = <<>> /\ convLog = <<>>

\* MobotixPT(user, passwd, ip)
InitPT ==
    /\ InitCall
    /\ frames = 1 /\ workdir = FALSE /\ dir = {}

NextPT ==
    \/ \E d \in Directions, s \in Speeds, t \in 0..MaxDuration : move(d, s, t)
    \/ move_sleep
    \/ move_stop
    \/ \E id \in PresetIds : move_to_preset(id)
    \/ stop
    \/ remote_reset
    \/ idle

SpecPT == InitPT /\ [][NextPT]_vars

\* MobotixImager(ip, user, passwd, workdir, frames)
Init ==
    /\ InitCall
    /\ frames \in 1..MaxFrames
    /\ workdir \in BOOLEAN
    /\ dir \in {S \in SUBSET FilePool : Cardinality(S) <= MaxFiles}
    /\ ~workdir => dir = {}

Next ==
    \/ \E mk \in BOOLEAN, launch \in BOOLEAN : capture(mk, launch)
    \/ \E l \in Lines : proc_emit(l)
    \/ \E f \in Raw(FilePool) : proc_write(f)
    \/ proc_exit
    \/ poll_timeout
    \/ poll_read
    \/ popen_exit
    \/ fin_step
    \/ fin_return
    \/ idle

Spec == Init /\ [][Next]_vars

-----------------------------------------------------------------------------
(* Claims about move().                                                    *)

\* the running call is a move() whose (direction, speed) is in speed_codes
MoveResolved ==
    /\ args.direction \in DOMAIN speed_codes
    /\ args.speed \in DOMAIN speed_codes[args.direction]

\* C1: a move() call whose (direction, speed) resolves to a wire command has,
\* when it ends, issued the stop command after the move command, also when
\* the transport failed on the move command.
C1_StopAfterMove ==
    (pc = "done" /\ MoveResolved) =>
        /\ Len(sent) = 2
        /\ sent[1] = speed_codes[args.direction][args.speed]
        /\ sent[2] = stopCode

-----------------------------------------------------------------------------
(* Claims about the supervision loop of get_camera_frames().               *)

\* the line holds frame, one whitespace, # and digits that read as a number
\* above the target
FrameLineAbove(line, target) ==
    \E i \in 1..Len(line) : \E j \in i + 3..Len(line) :
        /\ line[i] = "frame"
        /\ line[i + 1] \in Whitespace
        /\ line[i + 2] = "#"
        /\ \A k \in i + 3..j : line[k] \in Digits
        /\ int(SubSeq(line, i + 3, j)) > target

\* the loop was left on a line, with no exception
TargetReached == pc = "cap_wait" /\ exc = "none"

\* C2, as claimed: once the frame above the target is observed the
\* supervisor is never held up by a capture process that keeps running.
C2_NeverBlocksPastTarget ==
    TargetReached => proc # "running"

\* C2, amended: on the frame above the target the supervisor leaves the loop
\* with the stream closed and nothing more to read, and it ends the process by
\* no step of its own; but it goes on only once the process has exited.
C2_ReturnsAfterProcessExit ==
    /\ [](pc = "cap_wait" => ~stdout /\ pipe = <<>>)
    /\ [][(TargetReached /\ pc' # "cap_wait") => (proc = "exited" /\ pc' = "fin_loop")]_vars
    /\ [][(proc = "running" /\ proc' = "exited") => pc' = pc]_vars

C2_Witness ==
    /\ TargetReached
    /\ proc = "running"
    /\ search_frame(strip(output)) # None
    /\ int(search_frame(strip(output))) = frames + 1

\* C3: while timeouts have been the last thing to happen, however many, the
\* supervisor is still polling: it has neither returned nor raised.
C3_TimeoutKeepsPolling ==
    timeouts > 0 => (pc = "cap_poll" /\ ret = NoRet /\ exc = "none" /\ stdout)

C3_Witness ==
    /\ timeouts >= 2
    /\ pc = "cap_poll"
    /\ pipe = <<>>
    /\ proc = "running"

\* C4: the loop is left without an exception only on a line that holds
\* frame #<N> with N above the target.
C4_ExitOnlyAboveTarget ==
    TargetReached => FrameLineAbove(output, frames)

C4_Witness ==
    /\ TargetReached
    /\ output = <<"c", ":", " ", "frame", "\t", "#", "1", "0", " ", "\n">>

\* C5: a session that has read the output of its exited process to the end,
\* with no frame above the target seen, is over: it does not go on polling.
C5_ProcessExitEndsSession ==
    (proc = "exited" /\ eofs > 0) => pc # "cap_poll"

-----------------------------------------------------------------------------
(* Claims about capture() and the conversion pass.                         *)

Range(q) == {q[i] : i \in 1..Len(q)}

\* the raw entries the pass was given
RawEntries == Raw(Range(entries))

\* ffmpeg invocations of the pass on the entry f
RunsOn(f) == {i \in 1..Len(convLog) : convLog[i].src = f}

\* some invocation of ffmpeg failed
SomeRunFailed == \E i \in 1..Len(convLog) : ~convLog[i].ok

\* the for loop has taken every entry
PassOver ==
    /\ pc \in {"fin_loop", "done"}
    /\ proc = "exited" /\ exc = "none"
    /\ idx = Len(entries)

\* C6: once an exception was raised in the try block of capture() (mkdir,
\* Popen, reading the output), the call never reaches the for loop, converts
\* and deletes nothing, and ends by raising.
C6_ExceptionReraised ==
    /\ [](exc # "none" =>
            /\ pc \in {"cap_wait", "done"}
            /\ convLog = <<>> /\ idx = 0
            /\ pc = "done" => ret = Raise("Exception"))
    /\ [][exc' # "none" => dir \subseteq dir']_vars

C6_Witness ==
    /\ pc = "done"
    /\ exc = "UnicodeDecodeError"
    /\ ret.kind = "raise"
    /\ Raw(dir) # {}

\* C7: when every raw entry has a WIDTHxHEIGHT token and every ffmpeg run
\* succeeded, after the pass no raw entry is left, each former raw entry has
\* its .jpg sibling, and ffmpeg ran exactly once per raw entry, with the
\* dimensions of its name.
C7_AllConverted ==
    (/\ PassOver
     /\ \A f \in RawEntries : extract_resolution(f) # None
     /\ ~SomeRunFailed) =>
        /\ Raw(dir) = {}
        /\ Len(convLog) = Cardinality(RawEntries)
        /\ \A f \in RawEntries :
             /\ with_suffix(f, JPG) \in dir
             /\ Cardinality(RunsOn(f)) = 1
             /\ \A i \in RunsOn(f) :
                  /\ convLog[i].dims = extract_resolution(f)
                  /\ convLog[i].dst = with_suffix(f, JPG)

C7_Witness ==
    /\ PassOver /\ pc = "done"
    /\ RawEntries = {F_a, F_c}
    /\ F_txt \in Range(entries)
    /\ Raw(dir) = {}
    /\ \E i \in 1..Len(convLog) :
         convLog[i] = [src |-> F_c, dims |-> <<"1", "6", "x", "1", "2">>,
                       dst |-> <<"5", "x", "_", "1", "6", "x", "1", "2", ".", "jpg">>,
                       ok |-> TRUE]
    /\ \E i \in 1..Len(convLog) :
         convLog[i].src = F_a /\ convLog[i].dims = <<"3", "2", "x", "2", "4">>

\* C8: a raw entry whose ffmpeg run failed is still in the directory and the
\* call has ended by raising the failure; a raw entry is gone only after a run
\* of ffmpeg on it that succeeded.
C8_FailedRawKept ==
    /\ \A i \in 1..Len(convLog) :
         ~convLog[i].ok =>
            /\ convLog[i].src \in dir
            /\ pc = "done"
            /\ ret = Raise("CalledProcessError")
    /\ \A f \in RawEntries \ dir : \E i \in RunsOn(f) : convLog[i].ok

C8_Witness ==
    /\ pc = "done"
    /\ Len(convLog) = 2
    /\ convLog[1].ok /\ ~convLog[2].ok
    /\ convLog[1].src \notin dir
    /\ convLog[2].src \in dir

\* C9, as claimed: after a failed run of ffmpeg on one raw entry, every other
\* raw entry that has a resolution token is converted and removed.
C9_FailureDoesNotAbortBatch ==
    (pc = "done" /\ SomeRunFailed) =>
        \A f \in RawEntries :
            (extract_resolution(f) # None /\ \A i \in RunsOn(f) : convLog[i].ok) =>
                (f \notin dir /\ with_suffix(f, JPG) \in dir)

\* C9, amended: a failed run of ffmpeg ends the pass.  The raw entries listed
\* before the failing one are converted and removed; the failing one and every
\* raw entry listed after it stay in the directory, and ffmpeg is not run on
\* the latter.
C9_FailureAbortsBatch ==
    (pc = "done" /\ SomeRunFailed) =>
        /\ ret = Raise("CalledProcessError")
        /\ ~convLog[Len(convLog)].ok
        /\ entries[idx] = convLog[Len(convLog)].src
        /\ \A j \in 1..Len(entries) :
             suffix(entries[j]) = RGB =>
                /\ j < idx => (entries[j] \notin dir
                               /\ with_suffix(entries[j], JPG) \in dir)
                /\ j >= idx => entries[j] \in dir
                /\ j > idx => RunsOn(entries[j]) = {}

C9_Witness ==
    /\ pc = "done" /\ SomeRunFailed
    /\ idx = 2 /\ Len(entries) = 3
    /\ \A j \in 1..3 : suffix(entries[j]) = RGB
    /\ entries[1] \notin dir
    /\ entries[3] \in dir /\ extract_resolution(entries[3]) # None

\* C10: a pass that ends normally on a directory that held a raw entry
\* returns the .jpg path of the last raw entry it converted.
C10_ReturnsLastConverted ==
    (pc = "done" /\ PassOver /\ ret.kind = "return" /\ RawEntries # {}) =>
        /\ Len(convLog) > 0
        /\ ret.val = convLog[Len(convLog)].dst

-----------------------------------------------------------------------------
(* Claims about the transport and the controller.                          *)

\* the body is O K with nothing but whitespace before and after
IsOKBody(b) ==
    \E i \in 1..Len(b) - 1 :
        /\ b[i] = "O" /\ b[i + 1] = "K"
        /\ \A k \in 1..Len(b) : k \notin {i, i + 1} => b[k] \in Whitespace

\* a call that has ended and whose result is that of its one _send_command
SendEnded ==
    /\ pc = "done"
    /\ args.op \in {"stop", "remote_reset", "move_to_preset"}
    /\ resps # <<>>

\* C11: a send that got its response in time returns it if and only if the
\* body, whitespace around it dropped, is exactly OK; on every other body it
\* raises and returns nothing.
C11_AckIffOK ==
    (SendEnded /\ resps[1].took < DEFAULT_MOVEMENT_TIMEOUT) =>
        IF IsOKBody(resps[1].body)
        THEN ret.kind = "return" /\ ret.val = resps[1].body
        ELSE ret = Raise("Exception")

C11_Witness ==
    /\ SendEnded
    /\ resps[1].body = <<" ", "O", "K", " ", "\r", "\n">>
    /\ ret.kind = "return"

\* C12: a send ends in exactly one of three ways (the body returned, the
\* exception for a bad body, the timeout); it ends by the timeout when curl
\* has not ended within 15 units, whatever curl would have printed; and it
\* made one request, no more.
C12_OneRequestThreeOutcomes ==
    SendEnded =>
        /\ Len(sent) = 1 /\ Len(resps) = 1
        /\ \/ ret.kind = "return" /\ ret.tag = "stdout"
           \/ ret = Raise("Exception")
           \/ ret = Raise("TimeoutError")
        /\ ret = Raise("TimeoutError") <=> resps[1].took >= 15

C12_Witness ==
    /\ SendEnded
    /\ resps[1] = [took |-> 15, body |-> OK]
    /\ ret = Raise("TimeoutError")
    /\ Len(sent) = 1

\* the running call is a move() whose direction or speed is not in the table
MoveUnresolved ==
    /\ args.op = "move"
    /\ \/ args.direction \notin {"up", "down", "left", "right"}
       \/ args.speed \notin 1..5

\* C13: a move() whose (direction, speed) resolves to no wire command makes
\* no request, neither the move nor the stop command, and does not sleep: it
\* has ended at once.
C13_UnresolvedMoveSendsNothing ==
    MoveUnresolved =>
        /\ pc = "done"
        /\ sent = <<>> /\ resps = <<>>
        /\ slept = 0

C13_Witness ==
    /\ MoveUnresolved
    /\ args.direction = "up" /\ args.speed = 6 /\ args.duration = 2
    /\ pc = "done"
    /\ sent = <<>>

\* C14: the resolution of (direction, speed) in move() gives the table entry
\* when there is one and, when there is none (the direction or the speed is
\* outside the table), ends the call by returning the not-found value, not by
\* raising.
C14_NotFoundIsReturned ==
    /\ (args.op = "move" /\ ~MoveUnresolved /\ sent # <<>>) =>
          sent[1] = speed_codes[args.direction][args.speed]
    /\ (pc = "done" /\ MoveUnresolved) =>
          (ret.kind = "return" /\ ret.val = InvalidCodeMsg)

\* C15: move_to_preset(id) with id outside 1..32 makes no request and returns
\* the not-found text, which no successful send returns; with id in 1..32 it
\* makes one request, with the entry of that preset, and ends as the
\* transport ended.
C15_PresetLookup ==
    (pc = "done" /\ args.op = "move_to_preset") =>
        IF args.pt_id \in 1..32
        THEN /\ Len(sent) = 1 /\ Len(resps) = 1
             /\ sent[1] = presets[args.pt_id]
             /\ 10 * DigitVal(sent[1][17]) + DigitVal(sent[1][18]) = args.pt_id
             /\ ret = _send_command(resps[1])
        ELSE /\ sent = <<>> /\ resps = <<>>
             /\ ret.kind = "return"
             /\ ret.val = InvalidPresetMsg
             /\ ~IsOKBody(ret.val)

C15_Witness ==
    /\ pc = "done" /\ args.op = "move_to_preset"
    /\ args.pt_id = 33
    /\ sent = <<>>
    /\ ret.val = InvalidPresetMsg

\* the transport acknowledged every request of the running call
AllAcked ==
    \A i \in 1..Len(resps) :
        resps[i].took < DEFAULT_MOVEMENT_TIMEOUT /\ IsOKBody(resps[i].body)

\* C18: a move() with a resolvable command makes at most two requests, the
\* direction/speed command first and the stop command second; the stop
\* command is sent only once the call has slept for the whole duration; and
\* with both requests acknowledged the call ends having made exactly the two.
C18_MoveSleepStop ==
    (args.op = "move" /\ ~MoveUnresolved) =>
        /\ Len(sent) <= 2
        /\ Len(sent) >= 1 =>
              /\ sent[1] = speed_codes[args.direction][args.speed]
              /\ sent[1] # stopCode
        /\ Len(sent) = 2 => (sent[2] = stopCode /\ slept = args.duration)
        /\ (pc = "done" /\ AllAcked) =>
              (Len(sent) = 2 /\ ret = Return("None", <<>>))

C18_Witness ==
    /\ pc = "done" /\ args.op = "move"
    /\ args.duration = 2 /\ slept = 2
    /\ Len(sent) = 2 /\ AllAcked
    /\ sent[2] = stopCode

HexDigits == Digits \cup {"A", "B", "C", "D", "E", "F"}

HexVal(c) ==
    CASE c \in Digits -> DigitVal(c)
      [] c = "A" -> 10 [] c = "B" -> 11 [] c = "C" -> 12
      [] c = "D" -> 13 [] c = "E" -> 14 [] c = "F" -> 15

\* the k-th byte of a URL-encoded command
ByteOf(cmd, k) == 16 * HexVal(cmd[3 * k - 1]) + HexVal(cmd[3 * k])

\* seven bytes FF 01 00 op p1 p2 ck, with ck the sum of bytes 2..6 modulo 256
WellFormed(cmd) ==
    /\ Len(cmd) = 21
    /\ \A k \in 1..7 :
         /\ cmd[3 * k - 2] = "%"
         /\ cmd[3 * k - 1] \in HexDigits /\ cmd[3 * k] \in HexDigits
    /\ ByteOf(cmd, 1) = 255 /\ ByteOf(cmd, 2) = 1 /\ ByteOf(cmd, 3) = 0
    /\ ByteOf(cmd, 7) =
         (ByteOf(cmd, 2) + ByteOf(cmd, 3) + ByteOf(cmd, 4) + ByteOf(cmd, 5)
            + ByteOf(cmd, 6)) % 256

\* C20: every command of the tables, the stop command and the reset command,
\* and so every command handed to the transport, is seven bytes
\* FF 01 00 op p1 p2 ck with ck = (01 + 00 + op + p1 + p2) mod 256.
C20_CommandsWellFormed ==
    /\ \A i \in 1..Len(sent) : WellFormed(sent[i])
    /\ \A id \in DOMAIN presets : WellFormed(presets[id])
    /\ \A d \in DOMAIN speed_codes :
         \A v \in DOMAIN speed_codes[d] : WellFormed(speed_codes[d][v])
    /\ WellFormed(stopCode) /\ WellFormed(resetCode)
    /\ Cardinality(DOMAIN presets) = 32
    /\ Cardinality({<<d, v>> \in (DOMAIN speed_codes) \X (1..5) :
                       v \in DOMAIN speed_codes[d]}) = 20

C20_Witness ==
    /\ pc = "done" /\ args.op = "move"
    /\ Len(sent) = 2
    /\ ByteOf(sent[1], 5) = 255 /\ ByteOf(sent[1], 7) = 2
    /\ ByteOf(sent[2], 7) = 1

-----------------------------------------------------------------------------
(* Further claims about the conversion pass.                               *)

\* C16: a pass over a directory with no raw entry, empty or holding only
\* entries that are not raw, ends in an error and returns no path.
C16_NoRawRaises ==
    (pc = "done" /\ PassOver /\ RawEntries = {}) => ret.kind = "raise"

\* the text holds a digit, an x and a digit in a row
HasResolutionToken(s) ==
    \E k \in 2..Len(s) - 1 :
        s[k] = "x" /\ s[k - 1] \in Digits /\ s[k + 1] \in Digits

\* C17: for a raw entry whose name has no WIDTHxHEIGHT token, ffmpeg is not
\* run, the entry stays in the directory and no .jpg of it is written; once
\* the loop has taken the entry, the call has ended by raising.
C17_MalformedNameFailsFast ==
    \A j \in 1..Len(entries) :
        (suffix(entries[j]) = RGB /\ ~HasResolutionToken(stem(entries[j]))) =>
            /\ RunsOn(entries[j]) = {}
            /\ \A i \in 1..Len(convLog) :
                 convLog[i].dst # with_suffix(entries[j], JPG)
            /\ entries[j] \in dir
            /\ with_suffix(entries[j], JPG) \notin dir
            /\ j <= idx => (j = idx /\ pc = "done" /\ ret = Raise("AttributeError"))

C17_Witness ==
    /\ pc = "done"
    /\ ret = Raise("AttributeError")
    /\ idx = 2 /\ entries[2] = F_bare
    /\ Len(convLog) = 1 /\ convLog[1].ok
    /\ F_bare \in dir

\* C19: the for loop of capture() runs, and a raw entry is converted or
\* removed, only when the capture process of the call has exited and its
\* output stream is closed; a process that has exited writes no entry.
C19_ConversionAfterProcessExit ==
    /\ []((pc = "fin_loop" \/ idx > 0 \/ convLog # <<>>) =>
             (proc = "exited" /\ ~stdout))
    /\ [][(Raw(dir) \ Raw(dir') # {} \/ convLog' # convLog) =>
             (proc = "exited" \/ pc' = "idle")]_vars
    /\ [][(proc = "exited" /\ pc' # "idle") => dir \ dir' \subseteq Raw(dir)]_vars
    /\ [][(proc = "exited" /\ dir' \ dir # {}) =>
             \E i \in 1..Len(convLog') : dir' \ dir = {convLog'[i].dst}]_vars

C19_Witness ==
    /\ pc = "fin_loop"
    /\ proc = "exited"
    /\ Len(convLog) = 1 /\ convLog[1].ok
    /\ convLog[1].src \notin dir
    /\ idx < Len(entries)

====
